---- MODULE Spec2Model ----
(***************************************************************************)
(* zeep.wsdl.wsdl: loading a WSDL document and the documents it imports   *)
(* (Definitions.__init__, parse_imports, parse_types, ...), then merging  *)
(* the imports and resolving the entities (Definitions.resolve_imports,   *)
(* Definitions.merge), as WSDL.__init__ drives it.                         *)
(*                                                                         *)
(* Python values: None is the string NoneVal; an optional object is the   *)
(* empty sequence (None) or a one-element sequence; a dict is a sequence  *)
(* of [k, v] entries in insertion order; an object reference is the index *)
(* of the object in defs.                                                 *)
(***************************************************************************)
EXTENDS Integers, Sequences, FiniteSets, TLC

VARIABLES
    docs,        \* the documents behind the locations (the input, never changed)
    defs,        \* every Definitions object constructed so far, by identity
    registry,    \* WSDL._definitions: target namespace -> Definitions
    schema_references, \* WSDL._schema_references: pseudo-location -> schema node
    stack,       \* the Python call stack: WSDL.__init__ at the bottom
    status,      \* "running", "done" (WSDL.__init__ returned) or "error" (it raised)
    error,       \* the exception that ended the load, "" when none
    public,      \* the public attributes of the WSDL handle
    resolved,    \* history: entity -> number of resolve() calls it received
    link,        \* binding -> its port type, service port -> its binding (set by resolve)
    last,        \* history: the resolve() call made by the last step, if it made one
    loads,       \* history: location -> number of times it was fetched and parsed
    merges,      \* history: number of Definitions.merge calls
    mergedDone,  \* history: the Definitions whose merge loop (lines 105-106) has completed
    again,       \* number of further resolve_imports calls on the root after the load
    steps        \* history: number of steps taken

vars == <<docs, defs, registry, schema_references, stack, status, error, public,
          resolved, link, last, loads, merges, mergedDone, again, steps>>

-----------------------------------------------------------------------------
(* Bounds of the model *)

\* imports per document in the well-formed family
MaxImports == 2
\* Python's recursion limit, scaled down: deeper call stacks raise RecursionError
MaxDepth == 7
\* calls of resolve_imports on the root after WSDL.__init__ has returned
MaxAgain == 1
\* wsdl:binding elements of the root in the bindings family
MaxBindings == 2

-----------------------------------------------------------------------------
(* Python values *)

NoneVal == "<None>"

\* '%s' % x
Fmt(x) == IF x = NoneVal THEN "None" ELSE x

\* bool(x) of an attribute value: None and '' are falsy
Truthy(x) == x # NoneVal /\ x # ""

\* dict operations on sequences of [k, v] entries
Keys(d) == {d[i].k : i \in DOMAIN d}
Has(d, k) == k \in Keys(d)
Get(d, k) == d[CHOOSE i \in DOMAIN d : d[i].k = k].v
Put(d, k, v) ==
    IF Has(d, k)
    THEN [i \in DOMAIN d |-> IF d[i].k = k THEN [k |-> k, v |-> v] ELSE d[i]]
    ELSE Append(d, [k |-> k, v |-> v])
Values(d) == [i \in DOMAIN d |-> d[i].v]

RECURSIVE Update(_, _)
Update(d, e) ==
    IF e = <<>> THEN d ELSE Update(Put(d, Head(e).k, Head(e).v), Tail(e))

\* etree.QName(namespace, name): text is '{namespace}name', or 'name' without namespace
QName(namespace, name) == [ns |-> namespace, name |-> name]

\* k.startswith('{%s}' % namespace): a key without namespace has no '{'
StartsWithNamespace(k, namespace) == k.ns # NoneVal /\ k.ns = Fmt(namespace)

\* 'intschema+%s' % x
IntSchema(x) ==
    CASE Fmt(x) = "a" -> "intschema+a"
      [] Fmt(x) = "b" -> "intschema+b"
      [] Fmt(x) = "c" -> "intschema+c"
      [] OTHER -> "intschema+None"

-----------------------------------------------------------------------------
(* The inputs: documents *)

Locs == {"A", "B", "C"}
RootLocation == "A"
NS == {"a", "b", "c"}

OwnNs(l) == CASE l = "A" -> "a" [] l = "B" -> "b" [] OTHER -> "c"

\* a wsdl:import element
ImportNode(namespace, location) == [namespace |-> namespace, location |-> location]

\* an xsd:import element and an xsd:schema element
XsdImport(xsd, namespace, schemaLocation) ==
    [xsd |-> xsd, namespace |-> namespace, schemaLocation |-> schemaLocation]
SchemaNode(xsd, tns, imports) ==
    [xsd |-> xsd, targetNamespace |-> tns, imports |-> imports]

\* a document: one message, one port type, one SOAP 1.1 binding naming a port
\* type in namespace bref, one service whose port names a binding in namespace sref
Document(tns, imports, bref, sref, frags) ==
    [targetNamespace |-> tns,
     imports  |-> imports,
     types    |-> frags,
     messages |-> <<"m">>,
     portTypes |-> <<"p">>,
     bindings |-> <<[name |-> "bd", type |-> QName(bref, "p"),
                     soap11 |-> TRUE, soap12 |-> FALSE]>>,
     services |-> <<[name |-> "s", binding |-> QName(sref, "bd")]>>]

SeqsUpTo(S, n) == UNION {[1..m -> S] : m \in 0..n}
Injective(s) == \A i, j \in DOMAIN s : s[i] = s[j] => i = j

\* Well-formed family: every import names the targetNamespace of the document at
\* its location; the root may import itself; at most one reference of A or B
\* leaves its own namespace.
TargetSeqs(S, n) == {s \in SeqsUpTo(S, n) : Injective(s)}
Decls(ts) == [i \in DOMAIN ts |-> ImportNode(OwnNs(ts[i]), ts[i])]
OwnFrag(l) == <<SchemaNode("2001", OwnNs(l), <<>>)>>

RefVariations ==
    {[l \in Locs |-> [b |-> OwnNs(l), s |-> OwnNs(l)]]}
    \cup {[l \in Locs |-> [b |-> IF l = x THEN n ELSE OwnNs(l), s |-> OwnNs(l)]] :
            x \in {"A", "B"}, n \in NS}
    \cup {[l \in Locs |-> [b |-> OwnNs(l), s |-> IF l = x THEN n ELSE OwnNs(l)]] :
            x \in {"A", "B"}, n \in NS}

WellFormedConfigs ==
    {[l \in Locs |->
        Document(OwnNs(l), Decls(t[l]), r[l].b, r[l].s, OwnFrag(l))] :
        t \in {f \in [Locs -> TargetSeqs(Locs, MaxImports)] :
                 /\ f["B"] \in TargetSeqs({"A", "C"}, MaxImports)
                 /\ f["C"] \in TargetSeqs({"A", "B"}, 1)},
        r \in RefVariations}

\* Defective family: the root's import elements carry any namespace and location
\* attribute, or lack them; the root may lack its targetNamespace.
AnyImports ==
    {ImportNode(n, l) : n \in NS \cup {NoneVal}, l \in Locs \cup {NoneVal}}

DefectiveConfigs ==
    {[l \in Locs |->
        Document(IF l = RootLocation THEN rt ELSE OwnNs(l),
                 IF l = RootLocation THEN ri ELSE IF l = "B" THEN Decls(bi) ELSE <<>>,
                 IF l = RootLocation THEN rt ELSE OwnNs(l),
                 IF l = RootLocation THEN rt ELSE OwnNs(l),
                 OwnFrag(l))] :
        rt \in {"a", NoneVal},
        ri \in SeqsUpTo(AnyImports, 2),
        bi \in TargetSeqs(Locs, 1)}

\* Types family: A imports B; the wsdl:types of A holds no, one or two inline
\* schemas of either XML Schema namespace, the first with at most one xsd:import
XsdVersions == {"2001", "1999"}
SchemaLocations == {NoneVal, "", "s.xsd"}

XsdImportsOf(x) ==
    {<<>>} \cup {<<XsdImport(x, m, sl)>> : m \in {"a", "b", NoneVal}, sl \in SchemaLocations}

FirstFragments ==
    UNION {{SchemaNode(x, n, i) : n \in {"a", "b", NoneVal}, i \in XsdImportsOf(x)} :
             x \in XsdVersions}

TypesOfA ==
    {<<>>} \cup {<<f>> : f \in FirstFragments}
           \cup {<<f, SchemaNode("2001", n, <<>>)>> : f \in FirstFragments, n \in {"a", "b"}}

TypesOfB == {<<>>, OwnFrag("B"), OwnFrag("A")}

TypesConfigs ==
    {[l \in Locs |->
        Document(OwnNs(l),
                 IF l = "A" THEN Decls(<<"B">>) ELSE <<>>,
                 OwnNs(l), OwnNs(l),
                 IF l = "A" THEN ta ELSE IF l = "B" THEN tb ELSE OwnFrag(l))] :
        ta \in TypesOfA, tb \in TypesOfB}

\* Schema family: A imports B and C in either order, B may import C; every
\* document has either no wsdl:types or one inline schema of its own namespace
SchemaConfigs ==
    {[l \in Locs |->
        Document(OwnNs(l),
                 IF l = "A" THEN Decls(ia) ELSE IF l = "B" THEN Decls(ib) ELSE <<>>,
                 OwnNs(l), OwnNs(l),
                 IF l \in typed THEN OwnFrag(l) ELSE <<>>)] :
        ia \in TargetSeqs({"B", "C"}, MaxImports),
        ib \in TargetSeqs({"C"}, 1),
        typed \in SUBSET Locs}

\* Bindings family: A imports nothing; its wsdl:binding elements carry a
\* soap:binding child of SOAP 1.1, of SOAP 1.2, of both or of neither
BindingNodes ==
    {[name |-> n, type |-> QName("a", "p"), soap11 |-> s11, soap12 |-> s12] :
        n \in {"bd", "bd2"}, s11 \in BOOLEAN, s12 \in BOOLEAN}

BindingConfigs ==
    {[l \in Locs |->
        IF l = "A"
        THEN [Document("a", <<>>, "a", "a", OwnFrag(l)) EXCEPT !.bindings = bs]
        ELSE Document(OwnNs(l), <<>>, OwnNs(l), OwnNs(l), OwnFrag(l))] :
        bs \in SeqsUpTo(BindingNodes, MaxBindings)}

Configs ==
    WellFormedConfigs \cup DefectiveConfigs \cup TypesConfigs
        \cup SchemaConfigs \cup BindingConfigs

-----------------------------------------------------------------------------
(* Parsing one document: Definitions.parse_types .. parse_service *)

\* a message, port type, binding or service object; own is the Definitions whose
\* constructor created it, ref the qualified name it looks up when resolved
Entity(own, kind, name, ref) == [own |-> own, kind |-> kind, name |-> name, ref |-> ref]

\* xsd.Schema(schema_node, transport, schema_references): the node and the
\* registry as the constructor finds them
Schema(owner, schema_node, refs) == [owner |-> owner, root |-> schema_node, known |-> refs]

\* lines 207-209: register every fragment under 'intschema+<targetNamespace>'
RECURSIVE RegisterNodes(_, _, _, _)
RegisterNodes(self, nodes, j, refs) ==
    IF j > Len(nodes) THEN refs
    ELSE RegisterNodes(self, nodes, j + 1,
            Put(refs, IntSchema(nodes[j].targetNamespace), [def |-> self, idx |-> j]))

\* mutant of RewriteImport: the schemaLocation is never filled in
RewriteImport_unchanged(import_node) == import_node

\* lines 214-218: an {2001}import child without a (truthy) schemaLocation gets one
RewriteImport(import_node) ==
    IF import_node.xsd = "2001" /\ ~Truthy(import_node.schemaLocation)
    THEN [import_node EXCEPT !.schemaLocation = IntSchema(import_node.namespace)]
    ELSE import_node

RewriteNodes(nodes) ==
    [j \in DOMAIN nodes |->
        [nodes[j] EXCEPT !.imports = [m \in DOMAIN @ |-> RewriteImport(@[m])]]]

\* Definitions.parse_types: the schema it returns, the schema nodes it parsed
\* and the registry it leaves
parse_types(self, doc, refs) ==
    IF doc.types = <<>>
    THEN [schema |-> <<>>, nodes |-> <<>>, refs |-> refs]
    ELSE LET registered == RegisterNodes(self, doc.types, 1, refs)
             nodes == RewriteNodes(doc.types)
         IN  [schema |-> <<Schema(self, nodes[1], registered)>>,
              nodes |-> nodes,
              refs |-> registered]

RECURSIVE ParseNamed(_, _, _, _)
ParseNamed(self, tns, kind, names) ==
    IF names = <<>> THEN <<>>
    ELSE Put(ParseNamed(self, tns, kind, SubSeq(names, 1, Len(names) - 1)),
             QName(tns, names[Len(names)]),
             Entity(self, kind, names[Len(names)], QName(NoneVal, "")))

parse_messages(self, tns, doc) == ParseNamed(self, tns, "message", doc.messages)

parse_ports(self, tns, doc) == ParseNamed(self, tns, "portType", doc.portTypes)

\* mutant of parse_binding_nodes: SOAP 1.2 is tried before SOAP 1.1
RECURSIVE parse_binding_nodes_soap12First(_, _, _)
parse_binding_nodes_soap12First(self, tns, nodes) ==
    IF nodes = <<>> THEN <<>>
    ELSE LET rest == parse_binding_nodes_soap12First(self, tns, SubSeq(nodes, 1, Len(nodes) - 1))
             node == nodes[Len(nodes)]
         IN  IF node.soap12
             THEN Put(rest, QName(tns, node.name),
                      Entity(self, "binding", node.name, node.type) @@ [protocol |-> "soap12"])
             ELSE IF node.soap11
             THEN Put(rest, QName(tns, node.name),
                      Entity(self, "binding", node.name, node.type) @@ [protocol |-> "soap11"])
             ELSE rest

\* Definitions.parse_binding: SOAP 1.1 first, then SOAP 1.2, else skipped
RECURSIVE parse_binding_nodes(_, _, _)
parse_binding_nodes(self, tns, nodes) ==
    IF nodes = <<>> THEN <<>>
    ELSE LET rest == parse_binding_nodes(self, tns, SubSeq(nodes, 1, Len(nodes) - 1))
             node == nodes[Len(nodes)]
         IN  IF node.soap11
             THEN Put(rest, QName(tns, node.name),
                      Entity(self, "binding", node.name, node.type) @@ [protocol |-> "soap11"])
             ELSE IF node.soap12
             THEN Put(rest, QName(tns, node.name),
                      Entity(self, "binding", node.name, node.type) @@ [protocol |-> "soap12"])
             ELSE rest

parse_binding(self, tns, doc) == parse_binding_nodes(self, tns, doc.bindings)

RECURSIVE parse_service_nodes(_, _, _)
parse_service_nodes(self, tns, nodes) ==
    IF nodes = <<>> THEN <<>>
    ELSE Put(parse_service_nodes(self, tns, SubSeq(nodes, 1, Len(nodes) - 1)),
             QName(tns, nodes[Len(nodes)].name),
             Entity(self, "service", nodes[Len(nodes)].name, nodes[Len(nodes)].binding))

parse_service(self, tns, doc) == parse_service_nodes(self, tns, doc.services)

-----------------------------------------------------------------------------
(* Merging *)

\* mutant of filter_namespace: no filter, the importer takes every entry
filter_namespace_unfiltered(source, namespace) == source

\* merge.filter_namespace
filter_namespace(source, namespace) ==
    SelectSeq(source, LAMBDA e : StartsWithNamespace(e.k, namespace))

\* mutant of merge: the importer stores copies of the merged objects
Copies(entries) == [n \in DOMAIN entries |-> [entries[n] EXCEPT !.v.own = 0]]

merge_copying(self_def, other, namespace) ==
    [self_def EXCEPT
        !.schema = IF self_def.schema = <<>> THEN other.schema ELSE @,
        !.port_types = Update(@, Copies(filter_namespace(other.port_types, namespace))),
        !.messages = Update(@, Copies(filter_namespace(other.messages, namespace))),
        !.bindings = Update(@, Copies(filter_namespace(other.bindings, namespace))),
        !.services = Update(@, Copies(filter_namespace(other.services, namespace)))]

\* mutant of merge: a later import with a schema replaces the schema
merge_lastWins(self_def, other, namespace) ==
    [self_def EXCEPT
        !.schema = IF other.schema # <<>> THEN other.schema ELSE @,
        !.port_types = Update(@, filter_namespace(other.port_types, namespace)),
        !.messages = Update(@, filter_namespace(other.messages, namespace)),
        !.bindings = Update(@, filter_namespace(other.bindings, namespace)),
        !.services = Update(@, filter_namespace(other.services, namespace))]

\* Definitions.merge, lines 138-144: the importer after the merge
merge(self_def, other, namespace) ==
    [self_def EXCEPT
        !.schema = IF self_def.schema = <<>> THEN other.schema ELSE @,
        !.port_types = Update(@, filter_namespace(other.port_types, namespace)),
        !.messages = Update(@, filter_namespace(other.messages, namespace)),
        !.bindings = Update(@, filter_namespace(other.bindings, namespace)),
        !.services = Update(@, filter_namespace(other.services, namespace))]

\* mutant of ResolveOrder: the loop over the services is missing
ResolveOrder_noServices == <<"messages", "port_types", "bindings">>

\* mutant of ResolveOrder: the bindings are resolved before the port types
ResolveOrder_bindingsFirst == <<"messages", "bindings", "port_types", "services">>

\* the four loops of resolve_imports, in order (lines 114-124)
ResolveOrder == <<"messages", "port_types", "bindings", "services">>

\* entity.resolve(definitions): a binding looks up its port type, a service port
\* its binding; the lookup fails when the name is not in the maps
CanResolve(e, d) ==
    CASE e.kind = "binding" -> Has(d.port_types, e.ref)
      [] e.kind = "service" -> Has(d.bindings, e.ref)
      [] OTHER -> TRUE

Linked(e, d) ==
    CASE e.kind = "binding" -> Get(d.port_types, e.ref)
      [] e.kind = "service" -> Get(d.bindings, e.ref)

\* the resolve() calls one loop makes over es: up to and including the first
\* call that raises
RECURSIVE Calls(_, _)
Calls(es, d) ==
    IF es = <<>> THEN <<>>
    ELSE IF CanResolve(Head(es), d) THEN <<Head(es)>> \o Calls(Tail(es), d)
    ELSE <<Head(es)>>

\* the call counts after the calls es
Counted(count, es) ==
    [x \in DOMAIN count \cup {es[n] : n \in DOMAIN es} |->
        (IF x \in DOMAIN count THEN count[x] ELSE 0)
            + Cardinality({n \in DOMAIN es : es[n] = x})]

\* the links after the calls es on d: each call that finds its name sets the link
LinkAll(links, es, d) ==
    LET set == {es[n] : n \in {m \in DOMAIN es :
                    es[m].kind \in {"binding", "service"} /\ CanResolve(es[m], d)}}
    IN  [x \in DOMAIN links \cup set |-> IF x \in set THEN Linked(x, d) ELSE links[x]]

-----------------------------------------------------------------------------
(* The state machine *)

Frame(op, self, pc, snap) == [op |-> op, self |-> self, pc |-> pc, i |-> 1, j |-> 1, snap |-> snap]

Top == stack[Len(stack)]
Caller == stack[Len(stack) - 1]
SetTop(f) == [stack EXCEPT ![Len(stack)] = f]
Pop == SubSeq(stack, 1, Len(stack) - 1)
Live == status # "error"
Raise(exc) == status' = "error" /\ error' = exc

Init ==
    /\ docs \in Configs
    /\ defs = <<>>
    /\ registry = <<>>
    /\ schema_references = <<>>
    /\ stack = <<Frame("WSDL.__init__", 0, "new", <<>>)>>
    /\ status = "running"
    /\ error = ""
    /\ public = <<>>
    /\ resolved = <<>>
    /\ link = <<>>
    /\ last = <<>>
    /\ loads = [l \in Locs |-> 0]
    /\ merges = 0
    /\ mergedDone = {}
    /\ again = 0
    /\ steps = 0

\* Definitions.__init__ up to line 84: a fresh object, registered under the
\* document's targetNamespace
NewDefinitions(location) ==
    [location |-> location,
     target_namespace |-> docs[location].targetNamespace,
     schema |-> <<>>,
     port_types |-> <<>>, messages |-> <<>>, bindings |-> <<>>, services |-> <<>>,
     imports |-> <<>>,
     nodes |-> <<>>]

\* mutant of Construct: the new Definitions is not registered before its
\* imports are parsed
Construct_unregistered(location, frames) ==
    LET d == NewDefinitions(location)
        id == Len(defs) + 1
    IN  /\ defs' = Append(defs, d)
        /\ registry' = registry
        /\ loads' = [loads EXCEPT ![location] = @ + 1]
        /\ stack' = Append(frames, Frame("Definitions.__init__", id, "imports", <<>>))

Construct(location, frames) ==
    LET d == NewDefinitions(location)
        id == Len(defs) + 1
    IN  /\ defs' = Append(defs, d)
        /\ registry' = Put(registry, d.target_namespace, id)
        /\ loads' = [loads EXCEPT ![location] = @ + 1]
        /\ stack' = Append(frames, Frame("Definitions.__init__", id, "imports", <<>>))

\* WSDL.__init__ line 31: construct the root Definitions
LoadRoot ==
    /\ steps' = steps + 1
    /\ Live /\ Top.op = "WSDL.__init__" /\ Top.pc = "new"
    /\ Construct(RootLocation, SetTop([Top EXCEPT !.pc = "resolve", !.self = Len(defs) + 1]))
    /\ last' = <<>>
    /\ UNCHANGED <<docs, schema_references, status, error, public, resolved, link,
                   merges, mergedDone, again>>

ImportNodeAt(f) == docs[defs[f.self].location].imports[f.i]
InParseImports ==
    /\ Live /\ Top.op = "Definitions.__init__"
    /\ Top.i <= Len(docs[defs[Top.self].location].imports)

\* parse_imports line 166: '://' not in None raises TypeError
ImportWithoutLocation ==
    /\ steps' = steps + 1
    /\ InParseImports
    /\ ImportNodeAt(Top).location = NoneVal
    /\ Raise("TypeError")
    /\ last' = <<>>
    /\ UNCHANGED <<docs, defs, registry, schema_references, stack, public, resolved,
                   link, loads, merges, mergedDone, again>>

\* parse_imports lines 169-170: the namespace is registered, reuse its Definitions
ImportRegistered ==
    /\ steps' = steps + 1
    /\ InParseImports
    /\ ImportNodeAt(Top).location # NoneVal
    /\ Has(registry, ImportNodeAt(Top).namespace)
    /\ defs' = [defs EXCEPT ![Top.self].imports =
                    Put(@, ImportNodeAt(Top).namespace,
                        Get(registry, ImportNodeAt(Top).namespace))]
    /\ stack' = SetTop([Top EXCEPT !.i = @ + 1])
    /\ last' = <<>>
    /\ UNCHANGED <<docs, registry, schema_references, status, error, public, resolved,
                   link, loads, merges, mergedDone, again>>

\* parse_imports line 172: construct the Definitions of the imported location
ImportLoad ==
    /\ steps' = steps + 1
    /\ InParseImports
    /\ ImportNodeAt(Top).location # NoneVal
    /\ ~Has(registry, ImportNodeAt(Top).namespace)
    /\ last' = <<>>
    /\ IF Len(stack) < MaxDepth
       THEN /\ Construct(ImportNodeAt(Top).location, stack)
            /\ UNCHANGED <<status, error>>
       ELSE /\ Raise("RecursionError")
            /\ UNCHANGED <<defs, registry, loads, stack>>
    /\ UNCHANGED <<docs, schema_references, public, resolved, link, merges,
                   mergedDone, again>>

\* Definitions.__init__ lines 89-93, and the return into the caller (line 173)
FinishInit ==
    /\ steps' = steps + 1
    /\ Live /\ Top.op = "Definitions.__init__"
    /\ Top.i > Len(docs[defs[Top.self].location].imports)
    /\ LET self == Top.self
           doc == docs[defs[self].location]
           tns == defs[self].target_namespace
           types == parse_types(self, doc, schema_references)
           built == [defs[self] EXCEPT
                        !.schema = types.schema,
                        !.nodes = types.nodes,
                        !.messages = parse_messages(self, tns, doc),
                        !.port_types = parse_ports(self, tns, doc),
                        !.bindings = parse_binding(self, tns, doc),
                        !.services = parse_service(self, tns, doc)]
           defs1 == [defs EXCEPT ![self] = built]
       IN  /\ schema_references' = types.refs
           /\ IF Caller.op = "Definitions.__init__"
              THEN /\ defs' = [defs1 EXCEPT ![Caller.self].imports =
                                  Put(@, ImportNodeAt(Caller).namespace, self)]
                   /\ stack' = [Pop EXCEPT ![Len(stack) - 1].i = @ + 1]
              ELSE /\ defs' = defs1
                   /\ stack' = Pop
    /\ last' = <<>>
    /\ UNCHANGED <<docs, registry, status, error, public, resolved, link, loads,
                   merges, mergedDone, again>>

\* WSDL.__init__ line 32: root_definitions.resolve_imports()
CallRoot ==
    /\ steps' = steps + 1
    /\ Live /\ Top.op = "WSDL.__init__" /\ Top.pc = "resolve"
    /\ stack' = Append(SetTop([Top EXCEPT !.pc = "publish"]),
                       Frame("resolve_imports", Top.self, "merge", <<>>))
    /\ last' = <<>>
    /\ UNCHANGED <<docs, defs, registry, schema_references, status, error, public,
                   resolved, link, loads, merges, mergedDone, again>>

\* mutant of Merge: line 147 registers the import under the declared namespace
Merge_registering ==
    /\ steps' = steps + 1
    /\ Live /\ Top.op = "resolve_imports" /\ Top.pc = "merge"
    /\ Top.i <= Len(defs[Top.self].imports)
    /\ LET entry == defs[Top.self].imports[Top.i]
       IN  /\ defs' = [defs EXCEPT ![Top.self] = merge(@, defs[entry.v], entry.k)]
           /\ registry' = IF Has(registry, entry.k) THEN registry
                           ELSE Put(registry, entry.k, entry.v)
    /\ stack' = SetTop([Top EXCEPT !.i = @ + 1])
    /\ merges' = merges + 1
    /\ last' = <<>>
    /\ UNCHANGED <<docs, schema_references, status, error, public, resolved, link,
                   loads, mergedDone, again>>

\* resolve_imports lines 105-106: one merge; line 147 raises AttributeError when
\* the namespace is not registered
Merge ==
    /\ steps' = steps + 1
    /\ Live /\ Top.op = "resolve_imports" /\ Top.pc = "merge"
    /\ Top.i <= Len(defs[Top.self].imports)
    /\ LET entry == defs[Top.self].imports[Top.i]
       IN  /\ defs' = [defs EXCEPT ![Top.self] = merge(@, defs[entry.v], entry.k)]
           /\ IF Has(registry, entry.k)
              THEN /\ stack' = SetTop([Top EXCEPT !.i = @ + 1])
                   /\ UNCHANGED <<status, error>>
              ELSE /\ Raise("AttributeError")
                   /\ UNCHANGED stack
    /\ merges' = merges + 1
    /\ last' = <<>>
    /\ UNCHANGED <<docs, registry, schema_references, public, resolved, link, loads,
                   mergedDone, again>>

\* mutant of SnapshotImports: self.imports is not cleared
SnapshotImports_uncleared ==
    /\ steps' = steps + 1
    /\ Live /\ Top.op = "resolve_imports" /\ Top.pc = "merge"
    /\ Top.i > Len(defs[Top.self].imports)
    /\ stack' = SetTop([Top EXCEPT !.pc = "recurse", !.i = 1,
                                   !.snap = Values(defs[Top.self].imports)])
    /\ mergedDone' = mergedDone \cup {Top.self}
    /\ last' = <<>>
    /\ UNCHANGED <<docs, defs, registry, schema_references, status, error, public,
                   resolved, link, loads, merges, again>>

\* resolve_imports lines 108-109: imports = self.imports.copy(); self.imports = {}
SnapshotImports ==
    /\ steps' = steps + 1
    /\ Live /\ Top.op = "resolve_imports" /\ Top.pc = "merge"
    /\ Top.i > Len(defs[Top.self].imports)
    /\ stack' = SetTop([Top EXCEPT !.pc = "recurse", !.i = 1,
                                   !.snap = Values(defs[Top.self].imports)])
    /\ defs' = [defs EXCEPT ![Top.self].imports = <<>>]
    /\ mergedDone' = mergedDone \cup {Top.self}
    /\ last' = <<>>
    /\ UNCHANGED <<docs, registry, schema_references, status, error, public, resolved,
                   link, loads, merges, again>>

\* resolve_imports lines 111-112: definition.resolve_imports()
Recurse ==
    /\ steps' = steps + 1
    /\ Live /\ Top.op = "resolve_imports" /\ Top.pc = "recurse"
    /\ Top.i <= Len(Top.snap)
    /\ IF Len(stack) < MaxDepth
       THEN /\ stack' = Append(SetTop([Top EXCEPT !.i = @ + 1]),
                               Frame("resolve_imports", Top.snap[Top.i], "merge", <<>>))
            /\ UNCHANGED <<status, error>>
       ELSE /\ Raise("RecursionError")
            /\ UNCHANGED stack
    /\ last' = <<>>
    /\ UNCHANGED <<docs, defs, registry, schema_references, public, resolved, link,
                   loads, merges, mergedDone, again>>

\* resolve_imports is past line 112 and one of the four loops is still to run
InResolveLoops ==
    /\ Live /\ Top.op = "resolve_imports" /\ Top.pc = "recurse"
    /\ Top.i > Len(Top.snap)
    /\ Top.j <= Len(ResolveOrder)

\* resolve_imports lines 114-124: one of the four loops; the loop ends at the
\* first resolve(self) call that raises
ResolveEntities ==
    /\ steps' = steps + 1
    /\ InResolveLoops
    /\ LET d == defs[Top.self]
           es == Values(d[ResolveOrder[Top.j]])
           made == Calls(es, d)
           ok == Len(made) = Len(es) /\ (es # <<>> => CanResolve(es[Len(es)], d))
       IN  /\ last' = [n \in DOMAIN made |-> [entity |-> made[n], definitions |-> Top.self]]
           /\ resolved' = Counted(resolved, made)
           /\ link' = LinkAll(link, made, d)
           /\ stack' = IF ok THEN SetTop([Top EXCEPT !.j = @ + 1]) ELSE stack
           /\ status' = IF ok THEN status ELSE "error"
           /\ error' = IF ok THEN error ELSE "ReferenceError"
    /\ UNCHANGED <<docs, defs, registry, schema_references, public, loads, merges,
                   mergedDone, again>>

\* resolve_imports returns
Return ==
    /\ steps' = steps + 1
    /\ Live /\ Top.op = "resolve_imports" /\ Top.pc = "recurse"
    /\ Top.i > Len(Top.snap)
    /\ Top.j > Len(ResolveOrder)
    /\ stack' = Pop
    /\ last' = <<>>
    /\ UNCHANGED <<docs, defs, registry, schema_references, status, error, public,
                   resolved, link, loads, merges, mergedDone, again>>

\* WSDL.__init__ lines 35-39: the public attributes are the root's objects
Publish ==
    /\ steps' = steps + 1
    /\ Live /\ Top.op = "WSDL.__init__" /\ Top.pc = "publish"
    /\ public' = <<[schema |-> defs[Top.self].schema,
                    messages |-> [def |-> Top.self, attr |-> "messages"],
                    port_types |-> [def |-> Top.self, attr |-> "port_types"],
                    bindings |-> [def |-> Top.self, attr |-> "bindings"],
                    services |-> [def |-> Top.self, attr |-> "services"]]>>
    /\ stack' = SetTop([Top EXCEPT !.pc = "done"])
    /\ status' = "done"
    /\ last' = <<>>
    /\ UNCHANGED <<docs, defs, registry, schema_references, error, resolved, link,
                   loads, merges, mergedDone, again>>

\* a further root_definitions.resolve_imports() after WSDL.__init__ returned
ResolveAgain ==
    /\ steps' = steps + 1
    /\ status = "done" /\ Len(stack) = 1 /\ again < MaxAgain
    /\ stack' = Append(stack, Frame("resolve_imports", Top.self, "merge", <<>>))
    /\ again' = again + 1
    /\ last' = <<>>
    /\ UNCHANGED <<docs, defs, registry, schema_references, status, error, public,
                   resolved, link, loads, merges, mergedDone>>

Next ==
    \/ LoadRoot
    \/ ImportWithoutLocation
    \/ ImportRegistered
    \/ ImportLoad
    \/ FinishInit
    \/ CallRoot
    \/ Merge
    \/ SnapshotImports
    \/ Recurse
    \/ ResolveEntities
    \/ Return
    \/ Publish
    \/ ResolveAgain

Spec == Init /\ [][Next]_vars

-----------------------------------------------------------------------------
(* Vocabulary of the properties *)

MapAttrs == {"messages", "port_types", "bindings", "services"}

ImportNodes(l) == {docs[l].imports[n] : n \in DOMAIN docs[l].imports}

\* the namespaces the document of Definitions i declares an import of
DeclaredNamespaces(i) == {node.namespace : node \in ImportNodes(defs[i].location)}

\* the entries Definitions i parsed from its own document
OwnEntries(i, attr) ==
    {defs[i][attr][n] : n \in {m \in DOMAIN defs[i][attr] : defs[i][attr][m].v.own = i}}

Entries(i, attr) == {defs[i][attr][n] : n \in DOMAIN defs[i][attr]}

\* every import element names an existing location and the targetNamespace of
\* the document there, and every document has a targetNamespace
WellFormed ==
    \A l \in Locs :
        /\ docs[l].targetNamespace # NoneVal
        /\ \A node \in ImportNodes(l) :
              /\ node.location \in Locs
              /\ node.namespace = docs[node.location].targetNamespace

Imports(l, m) == \E node \in ImportNodes(l) : node.location = m

\* the root has returned from its constructor and resolve_imports is running or over
Resolving == Len(stack) >= 1 /\ stack[1].pc \in {"publish", "done"}

-----------------------------------------------------------------------------
(* C1: imports are non-transitive. In every state, every key of the four maps
   of every Definitions D is in D's targetNamespace or in a namespace that D's
   own document declares an import of. *)
NonTransitive ==
    \A i \in DOMAIN defs : \A attr \in MapAttrs : \A k \in Keys(defs[i][attr]) :
        \/ k.ns = defs[i].target_namespace
        \/ k.ns \in DeclaredNamespaces(i)

\* A imports B only, B imports C, the load is complete: B sees C's entities
NonTransitiveWitness ==
    /\ status = "done"
    /\ docs["A"].imports = <<ImportNode("b", "B")>>
    /\ docs["B"].imports = <<ImportNode("c", "C")>>
    /\ \E i \in DOMAIN defs :
          /\ defs[i].location = "B"
          /\ QName("c", "p") \in Keys(defs[i].port_types)
    /\ QName("b", "p") \in Keys(defs[1].port_types)

-----------------------------------------------------------------------------
(* C2: cycle termination. For well-formed documents (cyclic import graphs
   included) the constructor and resolve_imports never exhaust the stack,
   always have a next step until WSDL.__init__ ends, and end within a number
   of steps linear in the number of import elements; no document is loaded
   twice; and when A imports B and B imports A, after the load A's maps hold
   the entities B declared and B's maps hold the entities A declared. *)
TwoCycle == Imports("A", "B") /\ Imports("B", "A")

Sees(i, j) == \A attr \in MapAttrs : OwnEntries(j, attr) \subseteq Entries(i, attr)

RECURSIVE SumOver(_, _)
SumOver(S, f) ==
    IF S = {} THEN 0
    ELSE LET x == CHOOSE y \in S : TRUE IN f[x] + SumOver(S \ {x}, f)

TotalImports == SumOver(Locs, [l \in Locs |-> Len(docs[l].imports)])

\* per document: construct, one step per import, finish; per resolve_imports
\* call (the root's and one per import): the call, one merge and one recursion
\* per import, the snapshot, the four loops, the return; load, call, publish
StepBudget == 3 + 2 * Cardinality(Locs) + 11 * TotalImports + 7

\* some step of the load can be taken (the four resolve loops run whenever the
\* program is in them)
CanStep ==
    \/ InResolveLoops
    \/ ENABLED (LoadRoot \/ ImportWithoutLocation \/ ImportRegistered \/ ImportLoad
                   \/ FinishInit \/ CallRoot \/ Merge \/ SnapshotImports \/ Recurse
                   \/ Return \/ Publish \/ ResolveAgain)

CycleTermination ==
    WellFormed =>
        /\ error # "RecursionError"
        /\ \A l \in Locs : loads[l] <= 1
        /\ status = "running" => CanStep
        /\ again = 0 => steps <= StepBudget
        /\ (TwoCycle /\ status = "done") =>
              \A i, j \in DOMAIN defs :
                  (defs[i].location = "A" /\ defs[j].location = "B") =>
                      Sees(i, j) /\ Sees(j, i)

\* the two-document cycle, loaded and resolved
CycleTerminationWitness ==
    /\ WellFormed /\ TwoCycle
    /\ status = "done"
    /\ loads["A"] = 1 /\ loads["B"] = 1
    /\ QName("a", "p") \in Keys(defs[2].port_types)
    /\ QName("b", "p") \in Keys(defs[1].port_types)

-----------------------------------------------------------------------------
(* C3: registry uniqueness. At no point do two Definitions objects with the
   same targetNamespace exist, no document is loaded twice, and two importers
   that hold an import of the same namespace hold the same Definitions. *)
RegistryUniqueness ==
    /\ \A i, j \in DOMAIN defs :
          defs[i].target_namespace = defs[j].target_namespace => i = j
    /\ \A l \in Locs : loads[l] <= 1
    /\ \A i, j \in DOMAIN defs :
          \A n \in Keys(defs[i].imports) \cap Keys(defs[j].imports) :
              Get(defs[i].imports, n) = Get(defs[j].imports, n)

-----------------------------------------------------------------------------
(* C4: resolve() exactly once. Over the resolution WSDL.__init__ performs, no
   entity receives a second resolve() call, and when it is complete every
   entity of every map has received exactly one. *)
Count(e) == IF e \in DOMAIN resolved THEN resolved[e] ELSE 0

AllEntities ==
    UNION {{e.v : e \in Entries(i, attr)} : i \in DOMAIN defs, attr \in MapAttrs}

-----------------------------------------------------------------------------
(* C5: merge before resolve. Whenever resolve(D) is invoked on an entity, the
   merge of all direct imports has completed for D and for the Definitions
   that declared the entity: neither has a pending import. *)
MergeBeforeResolve ==
    \A n \in DOMAIN last :
        /\ defs[last[n].definitions].imports = <<>>
        /\ defs[last[n].entity.own].imports = <<>>

-----------------------------------------------------------------------------
(* C6: reference completeness. Whenever resolve(D) is invoked on a binding
   whose port type is in the maps of the Definitions that declared the binding,
   the port type is in D's maps; the same for a service and its binding. *)
ReferenceComplete ==
    \A n \in DOMAIN last :
        LET e == last[n].entity
            d == defs[last[n].definitions]
        IN  /\ (e.kind = "binding" /\ Has(defs[e.own].port_types, e.ref)) =>
                  Has(d.port_types, e.ref)
            /\ (e.kind = "service" /\ Has(defs[e.own].bindings, e.ref)) =>
                  Has(d.bindings, e.ref)

-----------------------------------------------------------------------------
(* C7: merge idempotence. Once WSDL.__init__ has returned, a further
   resolve_imports on the root loads no document, performs no merge and leaves
   the registry, the schema registry and the four maps and the schema of every
   Definitions as they were. *)
IdempotentStep ==
    status = "done" =>
        /\ registry' = registry
        /\ schema_references' = schema_references
        /\ loads' = loads
        /\ merges' = merges
        /\ DOMAIN defs' = DOMAIN defs
        /\ \A i \in DOMAIN defs :
              /\ defs'[i].schema = defs[i].schema
              /\ \A attr \in MapAttrs : defs'[i][attr] = defs[i][attr]

MergeIdempotence == [][IdempotentStep]_vars

\* the second resolve_imports on a root with a merged import has returned
MergeIdempotenceWitness ==
    /\ status = "done" /\ again = 1 /\ Len(stack) = 1
    /\ merges >= 2

-----------------------------------------------------------------------------
(* C8: merged entities are shared. After the load, for every import of the
   root that names the namespace n of the Definitions I it imports, every entry
   of I's maps in namespace n is in the root's map with the identical object;
   a binding (service) of the root is linked to the object the root's
   port_types (bindings) holds under the name it references; and the public
   maps of the WSDL handle are the root's map objects. *)
SharedByReference ==
    status = "done" =>
        /\ \A node \in ImportNodes(RootLocation) :
              (/\ node.namespace # NoneVal
               /\ node.location \in Locs
               /\ docs[node.location].targetNamespace = node.namespace) =>
                  \A attr \in MapAttrs :
                      \A e \in Entries(Get(registry, node.namespace), attr) :
                          e.k.ns = node.namespace => e \in Entries(1, attr)
        /\ \A e \in OwnEntries(1, "bindings") :
              e.v \in DOMAIN link /\ link[e.v] = Get(defs[1].port_types, e.v.ref)
        /\ \A e \in OwnEntries(1, "services") :
              e.v \in DOMAIN link /\ link[e.v] = Get(defs[1].bindings, e.v.ref)
        /\ public = <<[schema |-> defs[1].schema,
                       messages |-> [def |-> 1, attr |-> "messages"],
                       port_types |-> [def |-> 1, attr |-> "port_types"],
                       bindings |-> [def |-> 1, attr |-> "bindings"],
                       services |-> [def |-> 1, attr |-> "services"]]>>

\* the root R imports I and R's binding names I's port type
SharedByReferenceWitness ==
    /\ status = "done"
    /\ docs["A"].imports = <<ImportNode("b", "B")>>
    /\ docs["A"].bindings[1].type = QName("b", "p")
    /\ \E e \in OwnEntries(1, "bindings") :
          /\ e.v \in DOMAIN link
          /\ link[e.v] = Get(defs[2].port_types, QName("b", "p"))

-----------------------------------------------------------------------------
(* C9: a malformed import is fatal. When a loaded document has an import
   element without namespace or without location, the load does not succeed:
   WSDL.__init__ never returns a model. *)
Malformed(node) == node.namespace = NoneVal \/ node.location = NoneVal

MalformedImportFatal ==
    (\E i \in DOMAIN defs : \E node \in ImportNodes(defs[i].location) : Malformed(node))
        => (status # "done" /\ public = <<>>)

-----------------------------------------------------------------------------
(* C10: synthetic schema location. For every Definitions whose parse_types
   found inline schemas, with the registry as the Schema constructor found it:
   every fragment is registered under 'intschema+' + its targetNamespace; every
   xsd:import that had no schemaLocation has schemaLocation 'intschema+' + its
   namespace, and when that namespace is the targetNamespace of another
   fragment of the document the registry holds that fragment under that key;
   an import that had a schemaLocation is unchanged; and the Schema was built
   from the rewritten first fragment. *)
Parsed == {i \in DOMAIN defs : defs[i].nodes # <<>>}
Fragments(i) == docs[defs[i].location].types
KnownAtBuild(i) == defs[i].schema[1].known
NodeRef(i, j) == [def |-> i, idx |-> j]

SyntheticSchemaLocation ==
    \A i \in Parsed :
        /\ \A j \in DOMAIN Fragments(i) :
              /\ Has(KnownAtBuild(i), IntSchema(Fragments(i)[j].targetNamespace))
              /\ Get(KnownAtBuild(i), IntSchema(Fragments(i)[j].targetNamespace))
                    = NodeRef(i, j)
        /\ \A j \in DOMAIN Fragments(i) : \A m \in DOMAIN Fragments(i)[j].imports :
              LET before == Fragments(i)[j].imports[m]
                  after == defs[i].nodes[j].imports[m]
              IN  IF before.schemaLocation = NoneVal
                  THEN /\ after = [before EXCEPT
                                      !.schemaLocation = IntSchema(before.namespace)]
                       /\ \A j2 \in DOMAIN Fragments(i) \ {j} :
                             Fragments(i)[j2].targetNamespace = before.namespace =>
                                 /\ Has(KnownAtBuild(i), after.schemaLocation)
                                 /\ Get(KnownAtBuild(i), after.schemaLocation)
                                       = NodeRef(i, j2)
                  ELSE after = before
        /\ defs[i].schema[1].root = defs[i].nodes[1]

(* C10, amended: a later fragment with the same targetNamespace replaces an
   earlier one in the registry; only imports of the 2001 XML Schema namespace
   are rewritten, and an empty schemaLocation counts as none. For every
   Definitions whose parse_types found inline schemas, with the registry as the
   Schema constructor found it: under 'intschema+' + the targetNamespace of
   every fragment the registry holds the last fragment of the document with
   that targetNamespace; every 2001 xsd:import whose schemaLocation was absent
   or empty has schemaLocation 'intschema+' + its namespace, and when that
   namespace is the targetNamespace of a fragment of the document the registry
   holds the last such fragment under that key; every other import is
   unchanged; and the Schema was built from the rewritten first fragment. *)
LastWith(i, tns) ==
    CHOOSE j \in DOMAIN Fragments(i) :
        /\ Fragments(i)[j].targetNamespace = tns
        /\ \A j2 \in DOMAIN Fragments(i) :
              Fragments(i)[j2].targetNamespace = tns => j2 <= j

SyntheticSchemaLocationLastWins ==
    \A i \in Parsed :
        /\ \A j \in DOMAIN Fragments(i) :
              /\ Has(KnownAtBuild(i), IntSchema(Fragments(i)[j].targetNamespace))
              /\ Get(KnownAtBuild(i), IntSchema(Fragments(i)[j].targetNamespace))
                    = NodeRef(i, LastWith(i, Fragments(i)[j].targetNamespace))
        /\ \A j \in DOMAIN Fragments(i) : \A m \in DOMAIN Fragments(i)[j].imports :
              LET before == Fragments(i)[j].imports[m]
                  after == defs[i].nodes[j].imports[m]
              IN  IF before.xsd = "2001" /\ before.schemaLocation \in {NoneVal, ""}
                  THEN /\ after = [before EXCEPT
                                      !.schemaLocation = IntSchema(before.namespace)]
                       /\ \A j2 \in DOMAIN Fragments(i) :
                             Fragments(i)[j2].targetNamespace = before.namespace =>
                                 /\ Has(KnownAtBuild(i), after.schemaLocation)
                                 /\ Get(KnownAtBuild(i), after.schemaLocation)
                                       = NodeRef(i, LastWith(i, before.namespace))
                  ELSE after = before
        /\ defs[i].schema[1].root = defs[i].nodes[1]

\* the first inline schema of A imports the namespace of the second without a
\* schemaLocation: the import is rewritten and the registry holds the second
SyntheticSchemaLocationWitness ==
    /\ status = "done"
    /\ Len(docs["A"].types) = 2
    /\ docs["A"].types[1].targetNamespace = "a"
    /\ docs["A"].types[2].targetNamespace = "b"
    /\ docs["A"].types[1].imports = <<XsdImport("2001", "b", NoneVal)>>
    /\ defs[1].nodes[1].imports[1].schemaLocation = "intschema+b"
    /\ Get(schema_references, "intschema+b") = NodeRef(1, 2)

-----------------------------------------------------------------------------
(* C11: transitive schema exposure. After a successful load of well-formed
   documents, every Definitions whose document has no inline schema and exactly
   one import holds the schema its import holds, and the schema of the WSDL
   handle is the root's; so in the chain A -> B -> C where only C declares
   types, the schema of A and of the handle is C's schema. *)
DefAt(l) == CHOOSE i \in DOMAIN defs : defs[i].location = l

TransitiveSchemaExposure ==
    (status = "done" /\ WellFormed) =>
        /\ \A i \in DOMAIN defs :
              LET doc == docs[defs[i].location]
              IN  (doc.types = <<>> /\ Len(doc.imports) = 1) =>
                      defs[i].schema = defs[DefAt(doc.imports[1].location)].schema
        /\ public[1].schema = defs[1].schema

-----------------------------------------------------------------------------
(* C12: the schema fallback is first-match-wins and never overrides. A
   Definitions that parsed inline schemas holds the Schema it built from them;
   no step replaces a schema a Definitions holds; a merge into a Definitions
   without schema leaves it with the schema the merged import holds at that
   moment; during resolution nothing but a merge into it changes the schema of
   a Definitions; and the merge loop visits the imports in the order their
   namespaces are first declared in the document. *)
InMergeLoop ==
    /\ Live /\ Top.op = "resolve_imports" /\ Top.pc = "merge"
    /\ Top.i <= Len(defs[Top.self].imports)

Constructed(i) ==
    \A n \in DOMAIN stack : ~(stack[n].op = "Definitions.__init__" /\ stack[n].self = i)

RECURSIVE FirstDeclared(_)
FirstDeclared(nodes) ==
    IF nodes = <<>> THEN <<>>
    ELSE LET front == FirstDeclared(SubSeq(nodes, 1, Len(nodes) - 1))
             n == nodes[Len(nodes)].namespace
         IN  IF \E m \in DOMAIN front : front[m] = n THEN front ELSE Append(front, n)

SchemaFallbackStep ==
    /\ \A i \in Parsed :
          defs[i].schema # <<>> /\ defs[i].schema[1].owner = i
    /\ \A i \in DOMAIN defs :
          defs[i].schema # <<>> => defs'[i].schema = defs[i].schema
    /\ \A i \in DOMAIN defs :
          (Constructed(i) /\ i \notin mergedDone) =>
              [n \in DOMAIN defs[i].imports |-> defs[i].imports[n].k]
                  = FirstDeclared(docs[defs[i].location].imports)
    /\ InMergeLoop =>
          (defs[Top.self].schema = <<>> =>
              defs'[Top.self].schema = defs[defs[Top.self].imports[Top.i].v].schema)
    /\ Resolving =>
          \A i \in DOMAIN defs :
              defs'[i].schema # defs[i].schema => (InMergeLoop /\ Top.self = i)

-----------------------------------------------------------------------------
(* C13: the merge step runs exactly once. During one resolution every
   Definitions runs its merge loop over a non-empty imports map at most once;
   once its imports are snapshotted and cleared its four maps never change
   again; and after the load the imports map of every Definitions is empty,
   resolve_imports has run on every Definitions, and the number of merges is
   the number of namespaces the documents of the Definitions import. *)
DeclaredCount == SumOver(DOMAIN defs, [i \in DOMAIN defs |-> Cardinality(DeclaredNamespaces(i))])

MergedOnceStep ==
    /\ \A i \in mergedDone :
          /\ defs[i].imports = <<>>
          /\ \A attr \in MapAttrs : defs'[i][attr] = defs[i][attr]
    /\ status = "done" =>
          /\ mergedDone = DOMAIN defs
          /\ merges = DeclaredCount

MergedOnce == [][MergedOnceStep]_vars

-----------------------------------------------------------------------------
(* C14: fixed resolve order. Every step that makes resolve(D) calls is taken
   by a resolve_imports call on D whose recursion into its import snapshot is
   over; the loops of one call come in the order messages, port types,
   bindings, services, each over every entity of its map unless a call raises,
   each after the earlier maps of D were resolved, and the call returns only
   after the four; when a binding (service) has received resolve(D), every
   port type (binding) in D's map has received a resolve call. *)
KindOrder == <<"message", "portType", "binding", "service">>
AttrOrder == <<"messages", "port_types", "bindings", "services">>

FixedResolveOrderStep ==
    /\ last' # <<>> =>
          /\ Live /\ Top.op = "resolve_imports" /\ Top.pc = "recurse"
          /\ Top.i > Len(Top.snap)
          /\ Top.j \in DOMAIN KindOrder
          /\ \A n \in DOMAIN last' :
                /\ last'[n].definitions = Top.self
                /\ last'[n].entity.kind = KindOrder[Top.j]
                /\ last'[n].entity = Values(defs[Top.self][AttrOrder[Top.j]])[n]
          /\ status' # "error" => Len(last') = Len(defs[Top.self][AttrOrder[Top.j]])
          /\ \A k \in 1..(Top.j - 1) :
                \A e \in Entries(Top.self, AttrOrder[k]) : Count(e.v) >= 1
    /\ (Live /\ Top.op = "resolve_imports" /\ Len(stack') < Len(stack)) =>
          Top.j = Len(KindOrder) + 1
    /\ \A n \in DOMAIN last :
          LET d == last[n].definitions
          IN  /\ last[n].entity.kind = "binding" =>
                    \A e \in Entries(d, "port_types") : Count(e.v) >= 1
              /\ last[n].entity.kind = "service" =>
                    \A e \in Entries(d, "bindings") : Count(e.v) >= 1

FixedResolveOrder == [][FixedResolveOrderStep]_vars

\* the root, which imports B, has just resolved its own and B's binding
FixedResolveOrderWitness ==
    /\ docs["A"].imports = Decls(<<"B">>)
    /\ status = "running"
    /\ Len(last) = 2
    /\ \A n \in DOMAIN last : last[n].definitions = 1 /\ last[n].entity.kind = "binding"
    /\ \E n \in DOMAIN last : last[n].entity.own = 2

-----------------------------------------------------------------------------
(* C15: binding dispatch. Before any merge, the bindings map of every
   constructed Definitions has exactly the qualified names of the wsdl:binding
   elements of its document that match SOAP 1.1 or SOAP 1.2, elements after an
   unmatched one included; under each name it holds the binding parsed from the
   last matching element of that name, as SOAP 1.1 when the element matches
   SOAP 1.1 and as SOAP 1.2 otherwise. *)
BindingDispatch ==
    merges = 0 =>
        \A i \in DOMAIN defs :
            Constructed(i) =>
                LET nodes == docs[defs[i].location].bindings
                    tns == defs[i].target_namespace
                    matching == {n \in DOMAIN nodes : nodes[n].soap11 \/ nodes[n].soap12}
                    stored == {n \in matching :
                                 \A m \in matching : nodes[m].name = nodes[n].name => m <= n}
                IN  /\ Keys(defs[i].bindings) = {QName(tns, nodes[n].name) : n \in matching}
                    /\ \A n \in stored :
                          Get(defs[i].bindings, QName(tns, nodes[n].name)) =
                              [own |-> i, kind |-> "binding", name |-> nodes[n].name,
                               ref |-> nodes[n].type,
                               protocol |-> IF nodes[n].soap11 THEN "soap11" ELSE "soap12"]

\* an element matching neither, then one matching both: stored as SOAP 1.1
BindingDispatchWitness ==
    /\ merges = 0 /\ Len(defs) = 1 /\ Constructed(1)
    /\ docs["A"].bindings =
          <<[name |-> "bd2", type |-> QName("a", "p"), soap11 |-> FALSE, soap12 |-> FALSE],
            [name |-> "bd", type |-> QName("a", "p"), soap11 |-> TRUE, soap12 |-> TRUE]>>
    /\ Keys(defs[1].bindings) = {QName("a", "bd")}
    /\ Get(defs[1].bindings, QName("a", "bd")).protocol = "soap11"

------------------------------------------------------------------------

------------------------------------------------------------------------

-----------------------------------------------------------------------------
(* C16: exact content of the merged maps. When the merge loop of a Definitions
   D is over, each of D's four maps holds exactly the entries D parsed from its
   own document and, for every entry (n, I) of D's imports map, the entries I
   parsed from its own document whose key is in namespace n (a key without
   namespace is in no namespace); once a Definitions has been through its
   merge loop its four maps never change; and after the load every Definitions
   has been through its merge loop, so that for well-formed documents the maps
   of every Definitions hold exactly its own entries and, for each import
   element, the own entries of the imported document in the declared
   namespace. *)
ParsedFrom(i, attr) ==
    LET doc == docs[defs[i].location]
        tns == defs[i].target_namespace
        d == CASE attr = "messages" -> parse_messages(i, tns, doc)
               [] attr = "port_types" -> parse_ports(i, tns, doc)
               [] attr = "bindings" -> parse_binding(i, tns, doc)
               [] attr = "services" -> parse_service(i, tns, doc)
    IN  {d[n] : n \in DOMAIN d}

InNamespace(k, n) == n # NoneVal /\ k.ns = n

MergeLoopOver ==
    /\ Live /\ Top.op = "resolve_imports" /\ Top.pc = "merge"
    /\ Top.i > Len(defs[Top.self].imports)

ExactContentStep ==
    /\ (MergeLoopOver /\ Top.self \notin mergedDone) =>
          \A attr \in MapAttrs :
              Entries(Top.self, attr) =
                  ParsedFrom(Top.self, attr) \cup
                  UNION {{e \in ParsedFrom(imp.v, attr) : InNamespace(e.k, imp.k)} :
                           imp \in {defs[Top.self].imports[n] :
                                      n \in DOMAIN defs[Top.self].imports}}
    /\ \A i \in mergedDone : \A attr \in MapAttrs : Entries(i, attr)' = Entries(i, attr)
    /\ status = "done" =>
          /\ mergedDone = DOMAIN defs
          /\ WellFormed =>
                \A i \in DOMAIN defs : \A attr \in MapAttrs :
                    Entries(i, attr) =
                        ParsedFrom(i, attr) \cup
                        UNION {{e \in ParsedFrom(DefAt(node.location), attr) :
                                    InNamespace(e.k, node.namespace)} :
                                 node \in ImportNodes(defs[i].location)}

ExactContent == [][ExactContentStep]_vars

-----------------------------------------------------------------------------
(* C17: the resolve phase leaves the registries and the importee untouched.
   No step taken after the root's constructor has returned changes the
   namespace registry or the schema-fragment registry, also when a merged
   namespace is not a key of the registry; a merge changes nothing of any
   Definitions but the importer, leaves the four maps of the merged
   Definitions as they are, and changes nothing of the importer but its four
   maps and its schema. *)
RegistriesUntouchedStep ==
    /\ Resolving =>
          /\ registry' = registry
          /\ schema_references' = schema_references
    /\ InMergeLoop =>
          LET other == defs[Top.self].imports[Top.i].v
          IN  /\ DOMAIN defs' = DOMAIN defs
              /\ \A attr \in MapAttrs : defs'[other][attr] = defs[other][attr]
              /\ \A j \in DOMAIN defs \ {Top.self} : defs'[j] = defs[j]
              /\ defs'[Top.self] = [defs[Top.self] EXCEPT
                                       !.schema = defs'[Top.self].schema,
                                       !.messages = defs'[Top.self].messages,
                                       !.port_types = defs'[Top.self].port_types,
                                       !.bindings = defs'[Top.self].bindings,
                                       !.services = defs'[Top.self].services]

RegistriesUntouched == [][RegistriesUntouchedStep]_vars

\* a merge under a namespace that is not a key of the registry has been made
RegistriesUntouchedWitness ==
    /\ status = "error" /\ error = "AttributeError"
    /\ merges >= 1
    /\ Top.op = "resolve_imports" /\ Top.pc = "merge"
    /\ Top.i <= Len(defs[Top.self].imports)
    /\ ~Has(registry, defs[Top.self].imports[Top.i].k)
    /\ defs[Top.self].imports[Top.i].k # NoneVal

====
